---- MODULE Spec2Model ----
(***************************************************************************)
(* A model of the trajectory layer of atooms: the read/write template of   *)
(* TrajectoryBase (atooms/trajectory/base.py), its indexed access and      *)
(* iteration, its callbacks and cached timestep, SuperTrajectory, and the  *)
(* class decorators of atooms/trajectory/decorators.py.                    *)
(*                                                                         *)
(* A frame is kept symbolically: the system a format plugin returned and   *)
(* the list of callbacks that were applied to it, in the order of          *)
(* application.  c2(c1(s)) and c1(c2(s)) are therefore different frames.   *)
(***************************************************************************)
EXTENDS Integers, Sequences, FiniteSets, TLC

\* ---------------------------------------------------------------- bounds
MaxWrites == 3
MaxFail == 2
MaxCallbacks == 2
MaxFrames == 2
MaxIter == 2
MaxUnfold == 3

\* the nest of read_sample calls at which the interpreter raises RuntimeError
\* (its recursion limit, scaled down)
MaxDepth == 6

\* ---------------------------------------------------------------- values
StepVals == {0, 10}
Systems == {"sysA", "sysB"}
Cbks == {"center", "normalize_id"}
CbkArgs == {"plain", "alphabetic"}
Dts == {"1.0", "2.0"}
NoneDt == "None"

NoFrame == [sys |-> "none", applied |-> <<>>]
NoSlice == [start |-> [some |-> FALSE, v |-> 0],
            stop |-> [some |-> FALSE, v |-> 0],
            step |-> [some |-> FALSE, v |-> 0]]

NoKey == [kind |-> "none", v |-> 0, sl |-> NoSlice]

Range(s) == {s[i] : i \in 1..Len(s)}

NoDuplicates(s) == \A i, j \in 1..Len(s) : i # j => s[i] # s[j]

\* ----------------------------------------------------------------- state
VARIABLES
    mode,               \* self.mode
    steps,              \* self.steps
    callbacks,          \* self.callbacks
    initialized_read,   \* self._initialized_read
    initialized_write,  \* self._initialized_write
    timestep_cache,     \* self._timestep
    file,               \* what the format plugin has persisted: records (step, system)
    fileDt,             \* the timestep the plugin has persisted, if it persists one
    persistsDt,         \* whether the plugin overrides read_timestep / write_timestep
    last,               \* the last call on the trajectory: what it did and returned
    nReadInit,          \* invocations of read_init on this instance
    nWriteInit,         \* invocations of write_init on this instance
    nReadInitDone,      \* invocations of read_init that returned
    nWriteInitDone,     \* invocations of write_init that returned
    fails,              \* hooks that have raised so far
    writeLog,           \* (step, system) of every write_sample that returned
    dtWritten,          \* the last value handed to write_timestep
    reopened,           \* the file was written, closed and opened again for reading
    nReadTimestep,      \* invocations of read_timestep on this instance
    nReadTimestepDone,  \* invocations of read_timestep that returned
    it,                 \* the generator made by __iter__
    files,              \* SuperTrajectory: self.files
    steps_file,         \* SuperTrajectory: self._steps_file
    steps_frame,        \* SuperTrajectory: self._steps_frame
    last_trajectory,    \* SuperTrajectory: self._last_trajectory
    opened,             \* the sub-trajectory a "with" statement holds open
    pc,                 \* where the SuperTrajectory is in its constructor or call
    fi,                 \* the constructor's position in self.files
    dir,                \* the steps of each file of the directory
    slast,              \* the last call on the SuperTrajectory
    deco,               \* the decorator class of a decorated trajectory
    component,          \* the frames the wrapped component returns, by index
    csteps,             \* the wrapped component's own steps
    dsteps,             \* the decorated instance's self.steps
    d_initialized_read, \* the decorated instance's self._initialized_read
    dfailed,            \* a read of the wrapped component or a filter has raised
    sliced_samples,     \* Sliced: self._sliced_samples
    done,               \* Centered: self.__done
    u_old,              \* Unfolded: self._old
    u_last_read,        \* Unfolded: self._last_read
    matrix,             \* MatrixFlat: self._matrix
    dlast,              \* the last call on the decorated trajectory
    calls,              \* the Unfolded.read_sample calls of the last read through a stack
    mon                 \* the passes over the decorated trajectory so far

objVars == <<mode, steps, callbacks, initialized_read, initialized_write, timestep_cache>>
pluginVars == <<file, fileDt, persistsDt>>
countVars == <<nReadInit, nWriteInit, nReadInitDone, nWriteInitDone, nReadTimestep,
               nReadTimestepDone>>
histVars == <<fails, writeLog, dtWritten, reopened>>
superVars == <<files, steps_file, steps_frame, last_trajectory, opened, pc, fi, dir, slast>>
decoVars == <<deco, component, csteps, dsteps, d_initialized_read, dfailed, sliced_samples, done, u_old, u_last_read, matrix,
              dlast, calls, mon>>
vars == <<objVars, pluginVars, last, countVars, histVars, it, superVars, decoVars>>

\* ------------------------------------------------------- the format plugin
\* The steps a plugin finds in a file it opens for reading.
FileSteps(f) == [i \in 1..Len(f) |-> f[i].step]

\* write_sample(system, step): the frame is stored under its step.
WriteSample(f, system, step) ==
    IF \E i \in 1..Len(f) : f[i].step = step
    THEN [i \in 1..Len(f) |->
             IF f[i].step = step THEN [step |-> step, sys |-> system] ELSE f[i]]
    ELSE Append(f, [step |-> step, sys |-> system])

\* read_sample(index) finds a frame for the indices of the file only.
HasSample(f, index) == index >= 0 /\ index < Len(f)

SampleAt(f, index) == [sys |-> f[index + 1].sys, applied |-> <<>>]

\* A file that exists before the trajectory is opened for reading: n frames,
\* neighbours holding different systems.
StepAt(i) == IF i = 1 THEN 0 ELSE 10 * (i - 1)

SystemAt(i) == IF i % 2 = 1 THEN "sysA" ELSE "sysB"

PreFile(n) == [i \in 1..n |-> [step |-> StepAt(i), sys |-> SystemAt(i)]]

PreFiles == {PreFile(n) : n \in 0..MaxFrames}

\* ------------------------------------------------------------- callbacks
\* One element of self.callbacks is the list [cbk, args, kwargs]; cbk itself is
\* a callable.  Both are Python values, told apart by their type.
PyCallable(cbk) == [type |-> "function", cbk |-> cbk, args |-> "none"]

PyEntry(cbk, args) == [type |-> "list", cbk |-> cbk, args |-> args]

\* s = cbk(s, *args, **kwargs)
CallCbk(entry, s) == [s EXCEPT !.applied = Append(@, <<entry.cbk, entry.args>>)]

RECURSIVE ApplyCallbacksReversed(_, _)
ApplyCallbacksReversed(s, cbs) ==
    IF cbs = <<>> THEN s
    ELSE CallCbk(Head(cbs), ApplyCallbacksReversed(s, Tail(cbs)))

\* for cbk, args, kwargs in self.callbacks: s = cbk(s, *args, **kwargs)
RECURSIVE ApplyCallbacks(_, _)
ApplyCallbacks(s, cbs) ==
    IF cbs = <<>> THEN s
    ELSE ApplyCallbacks(CallCbk(Head(cbs), s), Tail(cbs))

\* ------------------------------------------------------------------ read
NeedsReadInitAlways(initR) == TRUE

\* if not self._initialized_read:
NeedsReadInit(initR) == ~initR

\* if not self._initialized_write:
NeedsWriteInit(initW) == ~initW

WriteRefusedNever(m) == FALSE

\* if self.mode == 'r': raise IOError
WriteRefused(m) == m = "r"

\* What one call of read(index) does, given whether read_init and read_sample
\* raise: the outcome, the frame, the hooks that ran, and the flag afterwards.
ReadCore(index, initR, initOk, sampleOk) ==
    IF NeedsReadInit(initR) /\ ~initOk
    THEN [kind |-> "Failure", val |-> NoFrame,
          events |-> << <<"read", index>>, <<"read_init", 0>> >>,
          initR |-> FALSE, inits |-> 1, initsDone |-> 0, failed |-> 1]
    ELSE LET ev == IF NeedsReadInit(initR)
                   THEN << <<"read", index>>, <<"read_init", 0>> >>
                   ELSE << <<"read", index>> >>
             n == IF NeedsReadInit(initR) THEN 1 ELSE 0
         IN IF ~HasSample(file, index)
            THEN [kind |-> "IndexError", val |-> NoFrame,
                  events |-> Append(ev, <<"read_sample", index>>),
                  initR |-> TRUE, inits |-> n, initsDone |-> n, failed |-> 0]
            ELSE IF ~sampleOk
            THEN [kind |-> "Failure", val |-> NoFrame,
                  events |-> Append(ev, <<"read_sample", index>>),
                  initR |-> TRUE, inits |-> n, initsDone |-> n, failed |-> 1]
            ELSE [kind |-> "ok",
                  val |-> ApplyCallbacks(SampleAt(file, index), callbacks),
                  events |-> Append(ev, <<"read_sample", index>>),
                  initR |-> TRUE, inits |-> n, initsDone |-> n, failed |-> 0]

Observed(op, arg, kind, val, list, events) ==
    [op |-> op, arg |-> arg, kind |-> kind, val |-> val, list |-> list,
     events |-> events, preR |-> initialized_read, preW |-> initialized_write,
     preSteps |-> steps, preDt |-> timestep_cache, dt |-> NoneDt, key |-> NoKey]

Read(index, initOk, sampleOk) ==
    LET r == ReadCore(index, initialized_read, initOk, sampleOk) IN
    /\ fails + r.failed <= MaxFail
    /\ initialized_read' = r.initR
    /\ nReadInit' = nReadInit + r.inits
    /\ nReadInitDone' = nReadInitDone + r.initsDone
    /\ fails' = fails + r.failed
    /\ last' = Observed("read", index, r.kind, r.val, <<>>, r.events)
    /\ UNCHANGED <<superVars, decoVars>>
    /\ UNCHANGED <<mode, steps, callbacks, initialized_write, timestep_cache,
                   pluginVars, nWriteInit, nWriteInitDone, nReadTimestep, nReadTimestepDone, writeLog,
                   dtWritten, reopened, it>>

\* ----------------------------------------------------------------- write
StepsAfterWriteAlways(s, step) == Append(s, step)

\* if step not in self.steps: self.steps.append(step)
StepsAfterWrite(s, step) == IF step \in Range(s) THEN s ELSE Append(s, step)

WriteCore(system, step, initOk, sampleOk, stored) ==
    IF WriteRefused(mode)
    THEN [kind |-> "IOError", events |-> <<>>, initW |-> initialized_write,
          steps |-> steps, file |-> file, inits |-> 0, initsDone |-> 0,
          failed |-> 0, wrote |-> FALSE]
    ELSE IF NeedsWriteInit(initialized_write) /\ ~initOk
    THEN [kind |-> "Failure", events |-> << <<"write_init", 0>> >>,
          initW |-> FALSE, steps |-> steps, file |-> file, inits |-> 1,
          initsDone |-> 0, failed |-> 1, wrote |-> FALSE]
    ELSE LET ev == IF NeedsWriteInit(initialized_write)
                   THEN << <<"write_init", 0>> >> ELSE <<>>
             n == IF NeedsWriteInit(initialized_write) THEN 1 ELSE 0
         IN IF ~sampleOk
            THEN [kind |-> "Failure",
                  events |-> Append(ev, <<"write_sample", step>>),
                  initW |-> TRUE, steps |-> steps,
                  file |-> IF stored THEN WriteSample(file, system, step) ELSE file,
                  inits |-> n, initsDone |-> n, failed |-> 1, wrote |-> FALSE]
            ELSE [kind |-> "ok",
                  events |-> Append(ev, <<"write_sample", step>>),
                  initW |-> TRUE, steps |-> StepsAfterWrite(steps, step),
                  file |-> WriteSample(file, system, step),
                  inits |-> n, initsDone |-> n, failed |-> 0, wrote |-> TRUE]

Write(system, step, initOk, sampleOk, stored) ==
    LET w == WriteCore(system, step, initOk, sampleOk, stored) IN
    /\ fails + w.failed <= MaxFail
    /\ w.wrote => Len(writeLog) < MaxWrites
    /\ initialized_write' = w.initW
    /\ steps' = w.steps
    /\ file' = w.file
    /\ nWriteInit' = nWriteInit + w.inits
    /\ nWriteInitDone' = nWriteInitDone + w.initsDone
    /\ fails' = fails + w.failed
    /\ writeLog' = IF w.wrote THEN Append(writeLog, <<step, system>>) ELSE writeLog
    /\ last' = Observed("write", step, w.kind, NoFrame, <<>>, w.events)
    /\ UNCHANGED <<superVars, decoVars>>
    /\ UNCHANGED <<mode, callbacks, initialized_read, timestep_cache, fileDt,
                   persistsDt, nReadInit, nReadInitDone, nReadTimestep, nReadTimestepDone, dtWritten,
                   reopened, it>>

\* ------------------------------------------------------------- callbacks
\* "cbk not in self.callbacks" compares the callable with each element of the
\* list, and each element is a list [cbk, args, kwargs].
CbkRegistered(cbk, cbs) == \E i \in 1..Len(cbs) : cbs[i] = PyCallable(cbk)

CallbacksAfterRegister(cbs, cbk, args) ==
    IF ~CbkRegistered(cbk, cbs) THEN Append(cbs, PyEntry(cbk, args)) ELSE cbs

RegisterCallback(cbk, args) ==
    /\ Len(callbacks) < MaxCallbacks
    /\ callbacks' = CallbacksAfterRegister(callbacks, cbk, args)
    /\ last' = Observed("register_callback", 0, "ok", NoFrame, <<>>, <<>>)
    /\ UNCHANGED <<superVars, decoVars>>
    /\ UNCHANGED <<mode, steps, initialized_read, initialized_write, timestep_cache,
                   pluginVars, countVars, histVars, it>>

AddCallback(cbk, args) ==
    /\ Len(callbacks) < MaxCallbacks
    /\ callbacks' = CallbacksAfterRegister(callbacks, cbk, args)
    /\ last' = Observed("add_callback", 0, "ok", NoFrame, <<>>, <<>>)
    /\ UNCHANGED <<superVars, decoVars>>
    /\ UNCHANGED <<mode, steps, initialized_read, initialized_write, timestep_cache,
                   pluginVars, countVars, histVars, it>>


\* -------------------------------------------------------- indexed access
\* range(n)[slice(start, stop, step)], as Python computes the indices of a slice.
None == [some |-> FALSE, v |-> 0]

Some(v) == [some |-> TRUE, v |-> v]

SliceStep(sl) == IF sl.step.some THEN sl.step.v ELSE 1

SliceBound(n, b, step, dflt) ==
    IF ~b.some THEN dflt
    ELSE IF b.v < 0
         THEN (IF b.v + n < 0 THEN (IF step < 0 THEN -1 ELSE 0) ELSE b.v + n)
         ELSE (IF b.v >= n THEN (IF step < 0 THEN n - 1 ELSE n) ELSE b.v)

SliceIndices(n, sl) ==
    LET step == SliceStep(sl)
        start == SliceBound(n, sl.start, step, IF step < 0 THEN n - 1 ELSE 0)
        stop == SliceBound(n, sl.stop, step, IF step < 0 THEN -1 ELSE n)
        len == IF step > 0
               THEN (IF start < stop THEN (stop - start - 1) \div step + 1 ELSE 0)
               ELSE (IF stop < start THEN (start - stop - 1) \div (-step) + 1 ELSE 0)
    IN [k \in 1..len |-> start + (k - 1) * step]

\* [self.read(i) for i in frames[key]]: the reads follow one another, the first
\* one that raises ends the comprehension.
RECURSIVE ReadMany(_, _, _, _, _)
ReadMany(idxs, initR, initOk, sampleOk, acc) ==
    IF idxs = <<>> THEN acc
    ELSE LET r == ReadCore(Head(idxs), initR, initOk, sampleOk)
             a == [kind |-> r.kind, list |-> acc.list, events |-> acc.events \o r.events,
                   initR |-> r.initR, inits |-> acc.inits + r.inits,
                   initsDone |-> acc.initsDone + r.initsDone,
                   failed |-> acc.failed + r.failed]
         IN IF r.kind = "ok"
            THEN ReadMany(Tail(idxs), r.initR, initOk, sampleOk,
                          [a EXCEPT !.list = Append(@, r.val)])
            ELSE a

\* if key < 0: key += len(self)
WrapKey(k, n) == IF k < 0 THEN k + n ELSE k

KeyOutOfRangeOffByOne(k, n) == k > n

\* if key >= len(self): raise IndexError
KeyOutOfRange(k, n) == k >= n

\* isinstance(key, slice) / isinstance(key, int) / anything else
IsSliceKey(key) == key.kind = "slice"

IsIntKey(key) == key.kind = "int"

GetItemCore(key, initOk, sampleOk) ==
    LET n == Len(steps)
        none == [kind |-> "ok", list |-> <<>>, events |-> <<>>, initR |-> initialized_read,
                 inits |-> 0, initsDone |-> 0, failed |-> 0]
    IN IF IsSliceKey(key)
       THEN LET m == ReadMany(SliceIndices(n, key.sl), initialized_read, initOk,
                              sampleOk, none)
            IN [m EXCEPT !.list = IF m.kind = "ok" THEN m.list ELSE <<>>]
                   @@ [val |-> NoFrame]
       ELSE IF IsIntKey(key)
       THEN LET k == WrapKey(key.v, n)
            IN IF KeyOutOfRange(k, n)
               THEN [none EXCEPT !.kind = "IndexError"] @@ [val |-> NoFrame]
               ELSE ReadCore(k, initialized_read, initOk, sampleOk) @@ [list |-> <<>>]
       ELSE [none EXCEPT !.kind = "TypeError"] @@ [val |-> NoFrame]

IntKey(v) == [kind |-> "int", v |-> v, sl |-> NoSlice]

SliceKey(start, stop, step) ==
    [kind |-> "slice", v |-> 0, sl |-> [start |-> start, stop |-> stop, step |-> step]]

OtherKey == [kind |-> "str", v |-> 0, sl |-> NoSlice]

Keys ==
    {IntKey(v) : v \in (0 - MaxFrames - 2)..(MaxFrames + 1)}
    \cup {SliceKey(None, None, None), SliceKey(Some(1), None, None),
          SliceKey(None, Some(-1), None), SliceKey(None, None, Some(2)),
          SliceKey(None, None, Some(-1))}
    \cup {OtherKey}

GetItem(key, initOk, sampleOk) ==
    LET g == GetItemCore(key, initOk, sampleOk) IN
    /\ fails + g.failed <= MaxFail
    /\ initialized_read' = g.initR
    /\ nReadInit' = nReadInit + g.inits
    /\ nReadInitDone' = nReadInitDone + g.initsDone
    /\ fails' = fails + g.failed
    /\ last' = [Observed("getitem", key.v, g.kind, g.val, g.list, g.events)
                   EXCEPT !.key = key]
    /\ UNCHANGED <<superVars, decoVars>>
    /\ UNCHANGED <<mode, steps, callbacks, initialized_write, timestep_cache,
                   pluginVars, nWriteInit, nWriteInitDone, nReadTimestep, nReadTimestepDone, writeLog,
                   dtWritten, reopened, it>>

\* ------------------------------------------------------------- iteration
\* iter(traj) makes a generator; nothing of its body has run yet.
NoIter == [status |-> "none", n |-> 0, i |-> 0, out |-> <<>>, reads |-> <<>>, round |-> 0]

IterNew ==
    /\ it.round < MaxIter
    /\ it' = [status |-> "fresh", n |-> 0, i |-> 0, out |-> <<>>, reads |-> <<>>,
              round |-> it.round + 1]
    /\ last' = Observed("iter", 0, "ok", NoFrame, <<>>, <<>>)
    /\ UNCHANGED <<superVars, decoVars>>
    /\ UNCHANGED <<objVars, pluginVars, countVars, histVars>>

IterLengthShort(g) == IF g.status = "fresh" THEN Len(steps) - 1 ELSE g.n

\* xrange(len(self.steps)) is evaluated when the body starts, on the first next().
IterLength(g) == IF g.status = "fresh" THEN Len(steps) ELSE g.n

IterIndexFromOne(g) == g.i + 1

\* the i of "for i in xrange(...)" that read is called with
IterIndex(g) == g.i

\* The indices read(...) was called with, among the events of a call.
RECURSIVE ReadsOf(_)
ReadsOf(events) ==
    IF events = <<>> THEN <<>>
    ELSE IF Head(events)[1] = "read"
         THEN <<Head(events)[2]>> \o ReadsOf(Tail(events))
         ELSE ReadsOf(Tail(events))

\* next(generator): for i in xrange(n): yield self.read(i)
IterNext(initOk, sampleOk) ==
    /\ it.status \in {"fresh", "running"}
    /\ LET n == IterLength(it) IN
       IF it.i < n
       THEN LET r == ReadCore(IterIndex(it), initialized_read, initOk, sampleOk) IN
            /\ fails + r.failed <= MaxFail
            /\ initialized_read' = r.initR
            /\ nReadInit' = nReadInit + r.inits
            /\ nReadInitDone' = nReadInitDone + r.initsDone
            /\ fails' = fails + r.failed
            /\ it' = [it EXCEPT !.status = IF r.kind = "ok" THEN "running" ELSE "raised",
                                !.n = n,
                                !.i = IF r.kind = "ok" THEN it.i + 1 ELSE it.i,
                                !.out = IF r.kind = "ok" THEN Append(@, r.val) ELSE @,
                                !.reads = @ \o ReadsOf(r.events)]
            /\ last' = Observed("next", it.i, r.kind, r.val, <<>>, r.events)
       ELSE /\ it' = [it EXCEPT !.status = "exhausted", !.n = n]
            /\ last' = Observed("next", it.i, "StopIteration", NoFrame, <<>>, <<>>)
            /\ UNCHANGED <<initialized_read, nReadInit, nReadInitDone, fails>>
    /\ UNCHANGED <<superVars, decoVars>>
    /\ UNCHANGED <<mode, steps, callbacks, initialized_write, timestep_cache,
                   pluginVars, nWriteInit, nWriteInitDone, nReadTimestep, nReadTimestepDone, writeLog,
                   dtWritten, reopened>>

\* -------------------------------------------------------------- timestep
DefaultDt == "1.0"

\* TrajectoryBase.read_timestep(): return 1.0
BaseReadTimestep == DefaultDt

\* A plugin that overrides read_timestep returns the timestep its file holds.
PluginReadTimestep == IF fileDt # NoneDt THEN fileDt ELSE DefaultDt

\* self.read_timestep(), the plugin's method if it has one
ReadTimestep == IF persistsDt THEN PluginReadTimestep ELSE BaseReadTimestep

\* self.write_timestep(value): TrajectoryBase's does nothing, a plugin that
\* overrides it stores the value.
FileDtAfterWrite(value) == IF persistsDt THEN value ELSE fileDt

NeedsReadTimestepAlways(cache) == TRUE

\* if self._timestep is None:
NeedsReadTimestep(cache) == cache = NoneDt

\* the timestep property; hookOk says whether a plugin's read_timestep returns
GetTimestep(hookOk) ==
    LET needs == NeedsReadTimestep(timestep_cache)
        raised == needs /\ persistsDt /\ ~hookOk
        dt == IF ~needs THEN timestep_cache ELSE IF raised THEN NoneDt ELSE ReadTimestep
    IN /\ fails + (IF raised THEN 1 ELSE 0) <= MaxFail
       /\ fails' = fails + (IF raised THEN 1 ELSE 0)
       /\ timestep_cache' = dt
       /\ nReadTimestep' = nReadTimestep + (IF needs THEN 1 ELSE 0)
       /\ nReadTimestepDone' = nReadTimestepDone + (IF needs /\ ~raised THEN 1 ELSE 0)
       /\ last' = [Observed("get_timestep", 0, IF raised THEN "Failure" ELSE "ok",
                            NoFrame, <<>>,
                            IF needs THEN << <<"read_timestep", 0>> >> ELSE <<>>)
                      EXCEPT !.dt = dt]
       /\ UNCHANGED <<superVars, decoVars>>
       /\ UNCHANGED <<mode, steps, callbacks, initialized_read, initialized_write,
                      pluginVars, nReadInit, nWriteInit, nReadInitDone, nWriteInitDone,
                      writeLog, dtWritten, reopened, it>>

\* the timestep setter; hookOk says whether a plugin's write_timestep returns
SetTimestep(value, hookOk) ==
    LET ok == hookOk \/ ~persistsDt IN
    /\ fails + (IF ok THEN 0 ELSE 1) <= MaxFail
    /\ fails' = fails + (IF ok THEN 0 ELSE 1)
    /\ fileDt' = IF ok THEN FileDtAfterWrite(value) ELSE fileDt
    /\ dtWritten' = IF ok THEN value ELSE dtWritten
    /\ timestep_cache' = IF ok THEN value ELSE timestep_cache
    /\ last' = [Observed("set_timestep", 0, IF ok THEN "ok" ELSE "Failure", NoFrame,
                         <<>>, << <<"write_timestep", 0>> >>) EXCEPT !.dt = value]
    /\ UNCHANGED <<superVars, decoVars>>
    /\ UNCHANGED <<mode, steps, callbacks, initialized_read, initialized_write,
                   file, persistsDt, countVars, writeLog, reopened, it>>

\* th.write_timestep(value), called directly as the tests do
WriteTimestep(value) ==
    /\ fileDt' = FileDtAfterWrite(value)
    /\ dtWritten' = value
    /\ last' = [Observed("write_timestep", 0, "ok", NoFrame, <<>>,
                         << <<"write_timestep", 0>> >>) EXCEPT !.dt = value]
    /\ UNCHANGED <<superVars, decoVars>>
    /\ UNCHANGED <<objVars, file, persistsDt, countVars, fails, writeLog, reopened, it>>

\* ------------------------------------------------------ the object's life
FreshBase(m, f, p) ==
    /\ mode = m
    /\ file = f
    /\ steps = FileSteps(f)
    /\ callbacks = <<>>
    /\ initialized_read = FALSE
    /\ initialized_write = FALSE
    /\ timestep_cache = NoneDt
    /\ fileDt = NoneDt
    /\ persistsDt = p
    /\ last = [op |-> "init", arg |-> 0, kind |-> "ok", val |-> NoFrame, list |-> <<>>,
               events |-> <<>>, preR |-> FALSE, preW |-> FALSE,
               preSteps |-> FileSteps(f), preDt |-> NoneDt, dt |-> NoneDt, key |-> NoKey]
    /\ nReadInit = 0
    /\ nWriteInit = 0
    /\ nReadInitDone = 0
    /\ nWriteInitDone = 0
    /\ nReadTimestep = 0
    /\ nReadTimestepDone = 0
    /\ fails = 0
    /\ writeLog = <<>>
    /\ dtWritten = NoneDt
    /\ reopened = FALSE
    /\ it = NoIter

\* with cls(path, 'w') as th: ... is left, and cls(path) opens what it wrote.
Reopen ==
    /\ mode = "w"
    /\ ~reopened
    /\ mode' = "r"
    /\ steps' = FileSteps(file)
    /\ callbacks' = <<>>
    /\ initialized_read' = FALSE
    /\ initialized_write' = FALSE
    /\ timestep_cache' = NoneDt
    /\ nReadInit' = 0
    /\ nWriteInit' = 0
    /\ nReadInitDone' = 0
    /\ nWriteInitDone' = 0
    /\ nReadTimestep' = 0
    /\ nReadTimestepDone' = 0
    /\ reopened' = TRUE
    /\ it' = NoIter
    /\ last' = [op |-> "init", arg |-> 0, kind |-> "ok", val |-> NoFrame, list |-> <<>>,
                events |-> <<>>, preR |-> FALSE, preW |-> FALSE,
                preSteps |-> FileSteps(file), preDt |-> NoneDt, dt |-> NoneDt,
                key |-> NoKey]
    /\ UNCHANGED <<superVars, decoVars>>
    /\ UNCHANGED <<pluginVars, fails, writeLog, dtWritten>>

\* ------------------------------------------------------- SuperTrajectory
\* File paths are numbers: the order of the numbers is the order of the paths.
Paths == {1, 2, 3}

SubStepLists == {<<0>>, <<10>>, <<0, 10>>, <<10, 10>>}

NoHandle == [set |-> FALSE, filename |-> 0, closed |-> FALSE]

\* self.trajectoryclass(f): an open sub-trajectory on the file f
Handle(f) == [set |-> TRUE, filename |-> f, closed |-> FALSE]

NoCall == [op |-> "none", kind |-> "ok", frame |-> 0, file |-> 0, local |-> 0,
           step |-> 0, reused |-> FALSE, pre |-> NoHandle, closes |-> <<>>]

SuperIdle ==
    /\ files = <<>>
    /\ steps_file = <<>>
    /\ steps_frame = <<>>
    /\ last_trajectory = NoHandle
    /\ opened = NoHandle
    /\ pc = "none"
    /\ fi = 0
    /\ dir = <<>>
    /\ slast = NoCall

\* A trajectory that has not been decorated.
NoDFrame == [pos |-> <<>>, side |-> 0, tags |-> <<>>]

NoDState == [init |-> FALSE, done |-> <<>>, old |-> <<>>, last |-> 0, matrix |-> FALSE]

NoDCall == [op |-> "none", sample |-> 0, kind |-> "ok", val |-> NoDFrame,
            wreads |-> <<>>, filts |-> <<>>, pre |-> NoDState, uslice |-> NoSlice,
            bads |-> {}, f1 |-> TRUE, f2 |-> TRUE]

NoMon == [phase |-> "first", next |-> 0, first |-> <<>>, second |-> FALSE]

DecoIdle ==
    /\ deco = "none"
    /\ component = <<>>
    /\ csteps = <<>>
    /\ dsteps = <<>>
    /\ d_initialized_read = FALSE
    /\ dfailed = FALSE
    /\ sliced_samples = <<>>
    /\ done = <<>>
    /\ u_old = <<>>
    /\ u_last_read = 0
    /\ matrix = FALSE
    /\ dlast = NoDCall
    /\ calls = <<>>
    /\ mon = NoMon

Fresh(m, f, p) == FreshBase(m, f, p) /\ SuperIdle /\ DecoIdle

baseVars == <<objVars, pluginVars, last, countVars, histVars, it>>

\* self.files.sort()
SortedFiles(fs) == SortSeq(fs, LAMBDA a, b : a < b)

KeepsStepIfNew(recorded, step) == step \notin Range(recorded)

\* if len(self.steps) == 0 or step != self.steps[-1]:
KeepsStep(recorded, step) == Len(recorded) = 0 \/ step # recorded[Len(recorded)]

\* for j, step in enumerate(t.steps): ... append (step, f, j) ...
\* idx is the three lists (steps, _steps_file, _steps_frame) so far.
RECURSIVE ScanFile(_, _, _, _)
ScanFile(idx, f, tsteps, j) ==
    IF j >= Len(tsteps) THEN idx
    ELSE LET step == tsteps[j + 1] IN
         IF KeepsStep(idx.steps, step)
         THEN ScanFile([steps |-> Append(idx.steps, step),
                        sfile |-> Append(idx.sfile, f),
                        sframe |-> Append(idx.sframe, j)], f, tsteps, j + 1)
         ELSE ScanFile(idx, f, tsteps, j + 1)

\* if len(self.files) == 0: raise ValueError
NoFiles(fs) == Len(fs) = 0

\* TrajectoryBase.__init__: if self.mode == 'r' and not os.path.exists(self.filename)
PathMissing(m, exists) == m = "r" /\ ~exists

\* SuperTrajectory.__init__ up to its loop over the files; exists tells whether
\* the directory of the first file does.
ConstructBegin(exists) ==
    /\ pc = "new"
    /\ UNCHANGED decoVars
    /\ IF NoFiles(files)
       THEN /\ pc' = "ValueError"
            /\ UNCHANGED <<files, steps, steps_file, steps_frame, last_trajectory, fi>>
       ELSE IF PathMissing(mode, exists)
       THEN /\ pc' = "IOError"
            /\ UNCHANGED <<files, steps, steps_file, steps_frame, last_trajectory, fi>>
       ELSE /\ pc' = "ctor"
            /\ files' = SortedFiles(files)
            /\ steps' = <<>>
            /\ steps_file' = <<>>
            /\ steps_frame' = <<>>
            /\ last_trajectory' = NoHandle
            /\ fi' = 1
    /\ slast' = [NoCall EXCEPT !.op = "init"]
    /\ UNCHANGED <<mode, callbacks, initialized_read, initialized_write, timestep_cache,
                   pluginVars, last, countVars, histVars, it, opened, dir>>

\* with self.trajectoryclass(f) as t: the sub-trajectory is opened
ConstructOpen ==
    /\ pc = "ctor"
    /\ UNCHANGED decoVars
    /\ ~opened.set
    /\ fi <= Len(files)
    /\ opened' = Handle(files[fi])
    /\ UNCHANGED <<baseVars, files, steps_file, steps_frame, last_trajectory, pc, fi,
                   dir, slast>>

\* the body of the with statement, and the close at its end
ConstructScan ==
    /\ pc = "ctor"
    /\ UNCHANGED decoVars
    /\ opened.set
    /\ LET idx == ScanFile([steps |-> steps, sfile |-> steps_file, sframe |-> steps_frame],
                           opened.filename, dir[opened.filename], 0)
       IN /\ steps' = idx.steps
          /\ steps_file' = idx.sfile
          /\ steps_frame' = idx.sframe
    /\ opened' = NoHandle
    /\ fi' = fi + 1
    /\ UNCHANGED <<mode, callbacks, initialized_read, initialized_write, timestep_cache,
                   pluginVars, last, countVars, histVars, it, files, last_trajectory,
                   pc, dir, slast>>

\* the loop over the files is over: the constructor returns
ConstructEnd ==
    /\ pc = "ctor"
    /\ UNCHANGED decoVars
    /\ ~opened.set
    /\ fi > Len(files)
    /\ pc' = "ready"
    /\ UNCHANGED <<baseVars, files, steps_file, steps_frame, last_trajectory, opened,
                   fi, dir, slast>>

CacheStaleByName(h, f) == h.filename # f

\* elif self._last_trajectory.filename != f or self._last_trajectory.trajectory.closed:
CacheStale(h, f) == h.filename # f \/ h.closed

\* list[i] in Python: a negative i counts from the end
PyIndex(i, n) == IF i < 0 THEN i + n ELSE i

PyIndexError(i, n) == i >= n \/ i < 0 - n

\* SuperTrajectory.read_sample(frame)
SuperReadSample(frame) ==
    /\ pc = "ready"
    /\ UNCHANGED decoVars
    /\ IF PyIndexError(frame, Len(steps_file))
       THEN /\ slast' = [NoCall EXCEPT !.op = "read_sample", !.kind = "IndexError",
                                       !.frame = frame]
            /\ UNCHANGED last_trajectory
       ELSE LET f == steps_file[PyIndex(frame, Len(steps_file)) + 1]
                j == steps_frame[PyIndex(frame, Len(steps_frame)) + 1]
                reuse == last_trajectory.set /\ ~CacheStale(last_trajectory, f)
            IN /\ last_trajectory' = IF reuse THEN last_trajectory ELSE Handle(f)
               /\ slast' = [op |-> "read_sample", kind |-> "ok", frame |-> frame,
                            file |-> f, local |-> j, step |-> dir[f][j + 1],
                            reused |-> reuse, pre |-> last_trajectory,
                            closes |-> IF ~reuse /\ last_trajectory.set
                                       THEN <<last_trajectory.filename>> ELSE <<>>]
    /\ UNCHANGED <<baseVars, files, steps_file, steps_frame, opened, pc, fi, dir>>

\* The file object of the cached sub-trajectory is closed by someone else.
ExternalClose ==
    /\ pc = "ready"
    /\ UNCHANGED decoVars
    /\ last_trajectory.set
    /\ ~last_trajectory.closed
    /\ last_trajectory' = [last_trajectory EXCEPT !.closed = TRUE]
    /\ slast' = [NoCall EXCEPT !.op = "external_close"]
    /\ UNCHANGED <<baseVars, files, steps_file, steps_frame, opened, pc, fi, dir>>

\* traj.timestep with nothing cached: read_timestep() opens the first file
\* in a with statement ...
SuperReadTimestepEnter ==
    /\ pc = "ready"
    /\ UNCHANGED decoVars
    /\ NeedsReadTimestep(timestep_cache)
    /\ opened' = Handle(files[1])
    /\ pc' = "read_timestep"
    /\ slast' = [NoCall EXCEPT !.op = "read_timestep"]
    /\ UNCHANGED <<baseVars, files, steps_file, steps_frame, last_trajectory, fi, dir>>

\* ... returns its timestep, and the with statement closes it.
SuperReadTimestepReturn ==
    /\ pc = "read_timestep"
    /\ UNCHANGED decoVars
    /\ timestep_cache' = DefaultDt
    /\ nReadTimestep' = nReadTimestep + 1
    /\ nReadTimestepDone' = nReadTimestepDone + 1
    /\ opened' = NoHandle
    /\ pc' = "ready"
    /\ slast' = [NoCall EXCEPT !.op = "timestep"]
    /\ UNCHANGED <<mode, steps, callbacks, initialized_read, initialized_write,
                   pluginVars, last, nReadInit, nWriteInit, nReadInitDone,
                   nWriteInitDone, histVars, it, files, steps_file, steps_frame,
                   last_trajectory, fi, dir>>

\* SuperTrajectory.close(), also what leaving a with statement calls
SuperClose ==
    /\ pc = "ready"
    /\ UNCHANGED decoVars
    /\ last_trajectory' = NoHandle
    /\ slast' = [NoCall EXCEPT !.op = "close"]
    /\ UNCHANGED <<baseVars, files, steps_file, steps_frame, opened, pc, fi, dir>>

\* The sub-trajectories that are open.
OpenHandles ==
    (IF last_trajectory.set /\ ~last_trajectory.closed THEN {<<"cache", last_trajectory.filename>>} ELSE {})
    \cup (IF opened.set THEN {<<"with", opened.filename>>} ELSE {})

\* ------------------------------------------------- decorated trajectories
\* A frame of a decorated trajectory keeps the components of one particle's
\* position on an integer grid, the side of its (cubic) cell, and the names of
\* the transformations applied to it whose arithmetic is not on the grid.
RawFrames == {[pos |-> <<-1, 0>>, side |-> 2, tags |-> <<>>],
              [pos |-> <<1, 0>>, side |-> 2, tags |-> <<>>],
              [pos |-> <<0, 1>>, side |-> 2, tags |-> <<>>],
              [pos |-> <<1, 1>>, side |-> 4, tags |-> <<>>],
              [pos |-> <<-2, 1>>, side |-> 4, tags |-> <<>>],
              [pos |-> <<0, 0>>, side |-> 4, tags |-> <<>>]}

Decos == {"Centered", "Sliced", "Unfolded", "MatrixFix", "NormalizeId", "Sorted",
          "MatrixFlat", "Filter", "AffineDeformation"}

Scales == {"lo", "hi"}

Tag(f, t) == [f EXCEPT !.tags = Append(@, t)]

\* The state of the decorated instance that read_sample reads and assigns.
DState == [init |-> d_initialized_read, done |-> done, old |-> u_old,
           last |-> u_last_read, matrix |-> matrix]

DRaise(kind, st, wreads, filts) ==
    [kind |-> kind, val |-> NoDFrame, st |-> st, wreads |-> wreads, filts |-> filts]

DReturn(val, st, wreads, filts) ==
    [kind |-> "ok", val |-> val, st |-> st, wreads |-> wreads, filts |-> filts]

\* super().read_sample(i) on the wrapped component: it raises for the indices in
\* bads, and for an index that is not a frame of the file.
WrappedRead(i, bads) ==
    IF i \in bads THEN [kind |-> "Failure", val |-> NoDFrame]
    ELSE IF i < 0 \/ i >= Len(component) THEN [kind |-> "IndexError", val |-> NoDFrame]
    ELSE [kind |-> "ok", val |-> component[i + 1]]

\* ---- Centered
AlreadyDoneNever(d, sample) == FALSE

\* sample in self.__done
AlreadyDone(d, sample) == sample \in Range(d)

\* s.cell.side / 2.0, for the even sides of the grid
HalfSide(L) == L \div 2

\* center: p.position -= s.cell.side / 2.0
CenterFrame(s) == [s EXCEPT !.pos = [c \in DOMAIN @ |-> @[c] - HalfSide(s.side)]]

\* Centered.read_sample(sample); kind "none" is a call that returned None
CenteredSample(st, sample, bads) ==
    IF AlreadyDone(st.done, sample)
    THEN [kind |-> "none", val |-> NoDFrame, st |-> st, wreads |-> <<>>, filts |-> <<>>]
    ELSE LET st1 == [st EXCEPT !.done = Append(@, sample)]
             w == WrappedRead(sample, bads)
         IN  IF w.kind # "ok" THEN DRaise(w.kind, st1, <<sample>>, <<>>)
             ELSE DReturn(CenterFrame(w.val), st1, <<sample>>, <<>>)

\* ---- Sliced
\* list[uslice]
SliceList(list, sl) ==
    LET idx == SliceIndices(Len(list), sl)
    IN  [k \in 1..Len(idx) |-> list[idx[k] + 1]]

SlicedTargetSame(samples, sample) == sample

\* self._sliced_samples[sample]
SlicedTarget(samples, sample) == samples[PyIndex(sample, Len(samples)) + 1]

\* Sliced.read_sample(sample)
SlicedSample(st, sample, bads) ==
    IF PyIndexError(sample, Len(sliced_samples)) THEN DRaise("IndexError", st, <<>>, <<>>)
    ELSE LET i == SlicedTarget(sliced_samples, sample)
             w == WrappedRead(i, bads)
         IN  IF w.kind # "ok" THEN DRaise(w.kind, st, <<i>>, <<>>)
             ELSE DReturn(w.val, st, <<i>>, <<>>)

\* ---- Unfolded
RIntFloor(num, den) == num \div den

\* numpy.rint(num / den) for den > 0: the nearest integer, the even one on a tie
RInt(num, den) ==
    LET q == num \div den
        r == num - q * den
    IN  IF 2 * r < den THEN q
        ELSE IF 2 * r > den THEN q + 1
        ELSE IF q % 2 = 0 THEN q ELSE q + 1

\* dif - numpy.rint(dif / L) * L
MinImage(dif, L) == dif - RInt(dif, L) * L

\* Unfolded.read_init(): the positions of the first frame are cached
UnfoldedReadInit(st, bads) ==
    LET w == WrappedRead(0, bads)
    IN  IF w.kind # "ok" THEN DRaise(w.kind, st, <<0>>, <<>>)
        ELSE DReturn(NoDFrame, [st EXCEPT !.old = w.val.pos, !.last = 0], <<0>>, <<>>)

BackwardRefusedLate(delta) == delta < -1

\* if delta < 0: raise ValueError
BackwardRefused(delta) == delta < 0

SkipCountShort(delta) == delta - 2

\* range(delta - 1)
SkipCount(delta) == delta - 1

\* the part of Unfolded.read_sample after the skipped frames were read
UnfoldNext(st, sample, bads) ==
    LET w == WrappedRead(sample, bads)
    IN  IF w.kind # "ok" THEN DRaise(w.kind, st, <<sample>>, <<>>)
        ELSE LET L == w.val.side
                 old == [c \in DOMAIN st.old |->
                            st.old[c] + MinImage(w.val.pos[c] - st.old[c], L)]
             IN  DReturn([w.val EXCEPT !.pos = old],
                         [st EXCEPT !.last = sample, !.old = old], <<sample>>, <<>>)

RECURSIVE UnfoldedSample(_, _, _)
RECURSIVE UnfoldSkipped(_, _, _, _)

\* for i in range(delta - 1): self.read_sample(self._last_read + 1)
UnfoldSkipped(st, n, bads, wreads) ==
    IF n <= 0 THEN DReturn(NoDFrame, st, wreads, <<>>)
    ELSE LET r == UnfoldedSample(st, st.last + 1, bads)
         IN  IF r.kind # "ok" THEN DRaise(r.kind, r.st, wreads \o r.wreads, <<>>)
             ELSE UnfoldSkipped(r.st, n - 1, bads, wreads \o r.wreads)

\* Unfolded.read_sample(sample)
UnfoldedSample(st, sample, bads) ==
    IF sample = 0
    THEN LET w == WrappedRead(0, bads)
         IN  IF w.kind # "ok" THEN DRaise(w.kind, st, <<0>>, <<>>)
             ELSE DReturn(w.val, st, <<0>>, <<>>)
    ELSE LET delta == sample - st.last
         IN  IF BackwardRefused(delta) THEN DRaise("ValueError", st, <<>>, <<>>)
             ELSE LET sk == IF delta > 1 THEN UnfoldSkipped(st, SkipCount(delta), bads, <<>>)
                            ELSE DReturn(NoDFrame, st, <<>>, <<>>)
                  IN  IF sk.kind # "ok" THEN sk
                      ELSE LET r == UnfoldNext(sk.st, sample, bads)
                           IN  [r EXCEPT !.wreads = sk.wreads \o @]

\* ---- MatrixFix, NormalizeId, Sorted
\* s = super().read_sample(...), then the particles of s are filtered,
\* renumbered or sorted
RewritingSample(cls, st, sample, bads) ==
    LET w == WrappedRead(sample, bads)
    IN  IF w.kind # "ok" THEN DRaise(w.kind, st, <<sample>>, <<>>)
        ELSE DReturn(Tag(w.val, cls), st, <<sample>>, <<>>)

\* ---- MatrixFlat
\* MatrixFlat.read_sample: the matrix particles are set up once and appended
MatrixFlatSample(st, sample, bads) ==
    LET w == WrappedRead(sample, bads)
    IN  IF w.kind # "ok" THEN DRaise(w.kind, st, <<sample>>, <<>>)
        ELSE DReturn(Tag(w.val, "MatrixFlat"), [st EXCEPT !.matrix = TRUE],
                     <<sample>>, <<>>)

\* ---- Filter
FilterNoRetry(f1, f2) == [ok |-> f1, calls |-> <<"sy">>, tag |-> "filt(sy)"]

\* try: return self.filt(sy, ...)   except: return self.filt(self, sy, ...)
FilterApply(f1, f2) ==
    IF f1 THEN [ok |-> TRUE, calls |-> <<"sy">>, tag |-> "filt(sy)"]
    ELSE [ok |-> f2, calls |-> <<"sy", "self,sy">>, tag |-> "filt(self,sy)"]

\* Filter.read_sample(sample); f1, f2 say whether the invocations of filt return
FilterSample(st, sample, bads, f1, f2) ==
    LET w == WrappedRead(sample, bads)
    IN  IF w.kind # "ok" THEN DRaise(w.kind, st, <<sample>>, <<>>)
        ELSE LET a == FilterApply(f1, f2)
             IN  IF a.ok THEN DReturn(Tag(w.val, a.tag), st, <<sample>>, a.calls)
                 ELSE DRaise("FilterError", st, <<sample>>, a.calls)

\* ---- AffineDeformation
\* scale = 1 + (random.random() - 0.5) * self.scale, applied to cell and positions
AffineSample(st, sample, bads, rnd) ==
    LET w == WrappedRead(sample, bads)
    IN  IF w.kind # "ok" THEN DRaise(w.kind, st, <<sample>>, <<>>)
        ELSE DReturn(Tag(w.val, rnd), st, <<sample>>, <<>>)

\* ---- the decorated instance
\* read_sample of the class that type(...) made of the decorator and the component
DecoSample(cls, st, sample, bads, f1, f2, rnd) ==
    CASE cls = "Centered" -> CenteredSample(st, sample, bads)
      [] cls = "Sliced" -> SlicedSample(st, sample, bads)
      [] cls = "Unfolded" -> UnfoldedSample(st, sample, bads)
      [] cls = "MatrixFlat" -> MatrixFlatSample(st, sample, bads)
      [] cls = "Filter" -> FilterSample(st, sample, bads, f1, f2)
      [] cls = "AffineDeformation" -> AffineSample(st, sample, bads, rnd)
      [] OTHER -> RewritingSample(cls, st, sample, bads)

\* read_init of the decorated class: Unfolded overrides it
DecoReadInit(cls, st, bads) ==
    IF cls = "Unfolded" THEN UnfoldedReadInit(st, bads)
    ELSE DReturn(NoDFrame, st, <<>>, <<>>)

\* TrajectoryBase.read(index) on the decorated instance, no callback registered
DecoReadCore(cls, st, sample, bads, f1, f2, rnd) ==
    LET ini == IF st.init THEN DReturn(NoDFrame, st, <<>>, <<>>)
               ELSE DecoReadInit(cls, st, bads)
    IN  IF ini.kind # "ok" THEN ini
        ELSE LET r == DecoSample(cls, [ini.st EXCEPT !.init = TRUE], sample, bads,
                                 f1, f2, rnd)
             IN  [r EXCEPT !.wreads = ini.wreads \o @]

DRaised(kind) == kind \in {"Failure", "FilterError"}

\* Which pass over the frames the caller is in: the first pass reads 0..N-1 in
\* order, the second pass reads 0..N-1 in order right after it.
MonNext(m, sample, r) ==
    LET n == Len(component) IN
    IF m.phase \in {"first", "second"} /\ sample = m.next /\ sample < n
    THEN IF m.phase = "first"
         THEN IF r.kind # "ok" THEN [m EXCEPT !.phase = "off", !.second = FALSE]
              ELSE [phase |-> IF sample + 1 = n THEN "second" ELSE "first",
                    next |-> IF sample + 1 = n THEN 0 ELSE sample + 1,
                    first |-> Append(m.first, r.val), second |-> FALSE]
         ELSE [phase |-> IF sample + 1 = n \/ r.kind # "ok" THEN "off" ELSE "second",
               next |-> sample + 1, first |-> m.first, second |-> TRUE]
    ELSE [m EXCEPT !.phase = "off", !.second = FALSE]

nonDecoVars == <<objVars, pluginVars, last, countVars, histVars, it, superVars>>

DSlices == {[start |-> None, stop |-> None, step |-> None],
            [start |-> Some(1), stop |-> None, step |-> None],
            [start |-> None, stop |-> None, step |-> Some(2)],
            [start |-> None, stop |-> Some(-1), step |-> None],
            [start |-> None, stop |-> None, step |-> Some(-1)]}

\* cls(component, ...): __new__ subclasses the component at runtime, __init__
\* sets the decorator's own attributes
Decorate(cls, uslice) ==
    /\ deco = "component"
    /\ deco' = cls
    /\ sliced_samples' = IF cls = "Sliced" THEN SliceIndices(Len(dsteps), uslice)
                         ELSE sliced_samples
    /\ dsteps' = IF cls = "Sliced" THEN SliceList(dsteps, uslice) ELSE dsteps
    /\ done' = <<>>
    /\ d_initialized_read' = FALSE
    /\ matrix' = FALSE
    /\ dlast' = [NoDCall EXCEPT !.op = "decorate", !.uslice = uslice]
    /\ UNCHANGED <<component, csteps, dfailed, u_old, u_last_read, calls, mon>>
    /\ UNCHANGED nonDecoVars

\* trajectory.read(sample) on the decorated trajectory
DecoRead(sample, bads, f1, f2, rnd) ==
    /\ deco \in Decos
    /\ LET r == DecoReadCore(deco, DState, sample, bads, f1, f2, rnd) IN
       /\ dfailed' = (dfailed \/ DRaised(r.kind))
       /\ d_initialized_read' = r.st.init
       /\ done' = r.st.done
       /\ u_old' = r.st.old
       /\ u_last_read' = r.st.last
       /\ matrix' = r.st.matrix
       /\ dlast' = [op |-> "read", sample |-> sample, kind |-> r.kind, val |-> r.val,
                    wreads |-> r.wreads, filts |-> r.filts, pre |-> DState,
                    uslice |-> dlast.uslice, bads |-> bads \cap Range(r.wreads),
                    f1 |-> (Len(r.filts) >= 1 => f1), f2 |-> (Len(r.filts) >= 2 => f2)]
       /\ mon' = IF deco = "Unfolded" THEN MonNext(mon, sample, r) ELSE mon
    /\ UNCHANGED <<deco, component, csteps, dsteps, sliced_samples, calls>>
    /\ UNCHANGED nonDecoVars

\* ---- a decorator over a decorated trajectory
\* Sliced(Unfolded(t), uslice) and Unfolded(Sliced(t, uslice)): each decorator
\* subclasses the class of its component, so self.read_sample is the method of
\* the outer decorator and super(...) the next class of the chain
Stacks == {"Sliced(Unfolded)", "Unfolded(Sliced)"}

StackResult(r, cs) ==
    [kind |-> r.kind, val |-> r.val, st |-> r.st, wreads |-> r.wreads,
     filts |-> r.filts, calls |-> cs]

\* super(Unfolded, self).read_sample(i): Sliced.read_sample when Unfolded is
\* the outer class, the read_sample of the trajectory when it is the inner one
SuperOfUnfolded(stack, st, i, bads) ==
    IF stack = "Unfolded(Sliced)" THEN SlicedSample(st, i, bads)
    ELSE LET w == WrappedRead(i, bads)
         IN  IF w.kind # "ok" THEN DRaise(w.kind, st, <<i>>, <<>>)
             ELSE DReturn(w.val, st, <<i>>, <<>>)

\* Unfolded.read_init() in a stack
StackReadInit(stack, st, bads) ==
    LET w == SuperOfUnfolded(stack, st, 0, bads)
    IN  IF w.kind # "ok" THEN w
        ELSE DReturn(NoDFrame, [st EXCEPT !.old = w.val.pos, !.last = 0], w.wreads, <<>>)

\* the part of Unfolded.read_sample after the skipped frames were read
StackUnfoldNext(stack, st, sample, bads) ==
    LET w == SuperOfUnfolded(stack, st, sample, bads)
    IN  IF w.kind # "ok" THEN w
        ELSE LET L == w.val.side
                 old == [c \in DOMAIN st.old |->
                            st.old[c] + MinImage(w.val.pos[c] - st.old[c], L)]
             IN  DReturn([w.val EXCEPT !.pos = old],
                         [st EXCEPT !.last = sample, !.old = old], w.wreads, <<>>)

RECURSIVE StackSample(_, _, _, _, _, _, _)
RECURSIVE StackUnfolded(_, _, _, _, _, _, _)
RECURSIVE StackSkipped(_, _, _, _, _, _, _)

\* for i in range(delta - 1): self.read_sample(self._last_read + 1)
StackSkipped(stack, st, n, bads, depth, wreads, cs) ==
    IF n <= 0 THEN StackResult(DReturn(NoDFrame, st, wreads, <<>>), cs)
    ELSE LET r == StackSample(stack, st, st.last + 1, bads, depth, cs, TRUE)
         IN  IF r.kind # "ok"
             THEN StackResult(DRaise(r.kind, r.st, wreads \o r.wreads, <<>>), r.calls)
             ELSE StackSkipped(stack, r.st, n - 1, bads, depth, wreads \o r.wreads, r.calls)

\* Unfolded.read_sample(sample) in a stack, as call number depth of the nest;
\* inner tells a call made by the loop over the skipped frames
StackUnfolded(stack, st, sample, bads, depth, cs, inner) ==
    IF depth > MaxDepth THEN StackResult(DRaise("RuntimeError", st, <<>>, <<>>), cs)
    ELSE LET cs1 == Append(cs, [sample |-> sample, last |-> st.last, inner |-> inner])
         IN  IF sample = 0
             THEN StackResult(SuperOfUnfolded(stack, st, 0, bads), cs1)
             ELSE LET delta == sample - st.last
                  IN  IF BackwardRefused(delta)
                      THEN StackResult(DRaise("ValueError", st, <<>>, <<>>), cs1)
                      ELSE LET sk == IF delta > 1
                                     THEN StackSkipped(stack, st, SkipCount(delta), bads,
                                                       depth, <<>>, cs1)
                                     ELSE StackResult(DReturn(NoDFrame, st, <<>>, <<>>), cs1)
                           IN  IF sk.kind # "ok" THEN sk
                               ELSE LET r == StackUnfoldNext(stack, sk.st, sample, bads)
                                    IN  StackResult([r EXCEPT !.wreads = sk.wreads \o @],
                                                    sk.calls)

\* self.read_sample(sample) in a stack, called from a nest of depth calls: the
\* method of the outer decorator
StackSample(stack, st, sample, bads, depth, cs, inner) ==
    IF stack = "Unfolded(Sliced)"
    THEN StackUnfolded(stack, st, sample, bads, depth + 1, cs, inner)
    ELSE IF depth + 1 > MaxDepth
    THEN StackResult(DRaise("RuntimeError", st, <<>>, <<>>), cs)
    ELSE IF PyIndexError(sample, Len(sliced_samples))
    THEN StackResult(DRaise("IndexError", st, <<>>, <<>>), cs)
    ELSE StackUnfolded(stack, st, SlicedTarget(sliced_samples, sample), bads,
                       depth + 2, cs, inner)

\* trajectory.read(sample) on a stack
StackReadCore(stack, st, sample, bads) ==
    LET ini == IF st.init THEN DReturn(NoDFrame, st, <<>>, <<>>)
               ELSE StackReadInit(stack, st, bads)
    IN  IF ini.kind # "ok" THEN StackResult(ini, <<>>)
        ELSE LET r == StackSample(stack, [ini.st EXCEPT !.init = TRUE], sample, bads,
                                  0, <<>>, FALSE)
             IN  [r EXCEPT !.wreads = ini.wreads \o @]

\* cls(trajectory, ...) on a trajectory that is decorated already: the
\* attributes of the component become those of the new class, then __init__
\* sets the decorator's own
DecorateAgain(cls, uslice) ==
    /\ \/ deco = "Unfolded" /\ cls = "Sliced"
       \/ deco = "Sliced" /\ cls = "Unfolded"
    /\ deco' = IF cls = "Sliced" THEN "Sliced(Unfolded)" ELSE "Unfolded(Sliced)"
    /\ sliced_samples' = IF cls = "Sliced" THEN SliceIndices(Len(dsteps), uslice)
                         ELSE sliced_samples
    /\ dsteps' = IF cls = "Sliced" THEN SliceList(dsteps, uslice) ELSE dsteps
    /\ d_initialized_read' = IF cls = "Unfolded" THEN FALSE ELSE d_initialized_read
    /\ dlast' = [NoDCall EXCEPT !.op = "decorate",
                                !.uslice = IF cls = "Sliced" THEN uslice ELSE dlast.uslice]
    /\ calls' = <<>>
    /\ UNCHANGED <<component, csteps, dfailed, done, u_old, u_last_read, matrix, mon>>
    /\ UNCHANGED nonDecoVars

\* trajectory.read(sample) on the stack
StackRead(sample, bads) ==
    /\ deco \in Stacks
    /\ LET r == StackReadCore(deco, DState, sample, bads) IN
       /\ dfailed' = (dfailed \/ DRaised(r.kind))
       /\ d_initialized_read' = r.st.init
       /\ u_old' = r.st.old
       /\ u_last_read' = r.st.last
       /\ dlast' = [op |-> "read", sample |-> sample, kind |-> r.kind, val |-> r.val,
                    wreads |-> r.wreads, filts |-> r.filts, pre |-> DState,
                    uslice |-> dlast.uslice, bads |-> bads \cap Range(r.wreads),
                    f1 |-> TRUE, f2 |-> TRUE]
       /\ calls' = r.calls
    /\ UNCHANGED <<deco, component, csteps, dsteps, sliced_samples, done, matrix, mon>>
    /\ UNCHANGED nonDecoVars

\* ------------------------------------------------------------------ specs
\* The read/write template: a trajectory opened in either mode.
Init == \E m \in {"r", "w"} : \E f \in (IF m = "r" THEN PreFiles ELSE {<<>>}) :
            Fresh(m, f, FALSE)

Next ==
    \/ \E index \in -1..MaxFrames, initOk \in BOOLEAN, sampleOk \in BOOLEAN :
          Read(index, initOk, sampleOk)
    \/ \E system \in Systems, step \in StepVals, initOk \in BOOLEAN,
          sampleOk \in BOOLEAN :
          Write(system, step, initOk, sampleOk, FALSE)

Spec == Init /\ [][Next]_vars

\* Callbacks on a trajectory that is read.
InitCallbacks == \E f \in PreFiles : Fresh("r", f, FALSE)

NextCallbacks ==
    \/ \E index \in 0..MaxFrames, sampleOk \in BOOLEAN : Read(index, TRUE, sampleOk)
    \/ \E cbk \in Cbks, args \in CbkArgs : RegisterCallback(cbk, args)
    \/ \E cbk \in Cbks, args \in CbkArgs : AddCallback(cbk, args)

SpecCallbacks == InitCallbacks /\ [][NextCallbacks]_vars

\* Indexed access and iteration.
InitAccess == \E f \in PreFiles : Fresh("r", f, FALSE)

NextAccess ==
    \/ \E key \in Keys, initOk \in BOOLEAN, sampleOk \in BOOLEAN :
          GetItem(key, initOk, sampleOk)
    \/ IterNew
    \/ \E initOk \in BOOLEAN, sampleOk \in BOOLEAN : IterNext(initOk, sampleOk)

SpecAccess == InitAccess /\ [][NextAccess]_vars

\* A write session followed by a read session on what it wrote.
InitRoundTrip == \E p \in BOOLEAN : Fresh("w", <<>>, p)

NextRoundTrip ==
    \/ /\ ~reopened
       /\ \E system \in Systems, step \in StepVals, sampleOk \in BOOLEAN,
             stored \in BOOLEAN : Write(system, step, TRUE, sampleOk, stored)
    \/ /\ ~reopened
       /\ \E value \in Dts : WriteTimestep(value)
    \/ Reopen
    \/ /\ reopened
       /\ it.status = "none"
       /\ IterNew
    \/ /\ reopened
       /\ \E sampleOk \in BOOLEAN : IterNext(TRUE, sampleOk)
    \/ /\ reopened
       /\ GetTimestep(TRUE)

SpecRoundTrip == InitRoundTrip /\ [][NextRoundTrip]_vars

\* A SuperTrajectory over the files of a directory.
FileLists ==
    {fs \in UNION {[1..n -> Paths] : n \in 0..Cardinality(Paths)} : NoDuplicates(fs)}

InitSuper ==
    /\ FreshBase("r", <<>>, FALSE)
    /\ files \in FileLists
    /\ dir \in [Paths -> SubStepLists]
    /\ steps_file = <<>>
    /\ steps_frame = <<>>
    /\ last_trajectory = NoHandle
    /\ opened = NoHandle
    /\ pc = "new"
    /\ fi = 0
    /\ slast = NoCall
    /\ DecoIdle

NextSuper ==
    \/ \E exists \in BOOLEAN : ConstructBegin(exists)
    \/ ConstructOpen
    \/ ConstructScan
    \/ ConstructEnd
    \/ \E frame \in -1..(Cardinality(Paths) * 2) : SuperReadSample(frame)
    \/ ExternalClose
    \/ SuperReadTimestepEnter
    \/ SuperReadTimestepReturn
    \/ SuperClose

SpecSuper == InitSuper /\ [][NextSuper]_vars

\* An undecorated component that holds the frames fs.
InitComponent(fs) ==
    /\ FreshBase("r", <<>>, FALSE)
    /\ SuperIdle
    /\ deco = "component"
    /\ component = fs
    /\ csteps = [i \in 1..Len(fs) |-> 10 * (i - 1)]
    /\ dsteps = [i \in 1..Len(fs) |-> 10 * (i - 1)]
    /\ d_initialized_read = FALSE
    /\ dfailed = FALSE
    /\ sliced_samples = <<>>
    /\ done = <<>>
    /\ u_old = <<>>
    /\ u_last_read = 0
    /\ matrix = FALSE
    /\ dlast = NoDCall
    /\ calls = <<>>
    /\ mon = NoMon

\* An Unfolded trajectory over every file of the grid, the component never fails.
UComponents == UNION {[1..n -> RawFrames] : n \in 1..MaxUnfold}

InitUnfolded == \E fs \in UComponents : InitComponent(fs)

NextUnfolded ==
    \/ Decorate("Unfolded", NoSlice)
    \/ \E sample \in -1..MaxUnfold : DecoRead(sample, {}, TRUE, TRUE, "lo")

SpecUnfolded == InitUnfolded /\ [][NextUnfolded]_vars

\* Every decorator over a file of distinct frames, the component and the
\* filter may fail.
DFrameAt(i) == [pos |-> <<(i % 3) - 1, i % 2>>, side |-> 2, tags |-> <<>>]

DFile(n) == [i \in 1..n |-> DFrameAt(i)]

InitDecorators == \E n \in 0..MaxFrames : InitComponent(DFile(n))

BadSets == {{}} \cup {{i} : i \in 0..MaxFrames}

NextDecorators ==
    \/ \E cls \in Decos, uslice \in DSlices : Decorate(cls, uslice)
    \/ /\ deco \in {"Sliced", "Unfolded"}
       /\ \E sample \in -1..MaxFrames, bads \in BadSets :
             DecoRead(sample, bads, TRUE, TRUE, "lo")
    \/ /\ deco \notin {"Sliced", "Unfolded", "Filter", "AffineDeformation"}
       /\ \E sample \in -1..MaxFrames : \E bads \in {{}, {sample}} :
             DecoRead(sample, bads, TRUE, TRUE, "lo")
    \/ /\ deco = "Filter"
       /\ \E sample \in -1..MaxFrames : \E bads \in {{}, {sample}}, f1 \in BOOLEAN,
             f2 \in BOOLEAN :
             DecoRead(sample, bads, f1, f2, "lo")
    \/ /\ deco = "AffineDeformation"
       /\ \E sample \in -1..MaxFrames : \E bads \in {{}, {sample}}, rnd \in Scales :
             DecoRead(sample, bads, TRUE, TRUE, rnd)

SpecDecorators == InitDecorators /\ [][NextDecorators]_vars

\* A Sliced trajectory over a component that never fails.
InitSliced == \E n \in 0..(MaxFrames + 1) : InitComponent(DFile(n))

NextSliced ==
    \/ \E uslice \in DSlices : Decorate("Sliced", uslice)
    \/ \E sample \in (0 - MaxFrames - 2)..(MaxFrames + 1) :
          DecoRead(sample, {}, TRUE, TRUE, "lo")

SpecSliced == InitSliced /\ [][NextSliced]_vars

\* Sliced over Unfolded and Unfolded over Sliced, over a file of distinct
\* frames; the component may fail.
InitStacked == \E n \in 0..(MaxFrames + 2) : InitComponent(DFile(n))

NextStacked ==
    \/ \E cls \in {"Sliced", "Unfolded"}, uslice \in DSlices : Decorate(cls, uslice)
    \/ \E cls \in {"Sliced", "Unfolded"}, uslice \in DSlices : DecorateAgain(cls, uslice)
    \/ \E sample \in 0..(MaxFrames + 1) : DecoRead(sample, {}, TRUE, TRUE, "lo")
    \/ \E sample \in -1..(MaxFrames + 1) : \E bads \in {{}, {sample}} :
          StackRead(sample, bads)

SpecStacked == InitStacked /\ [][NextStacked]_vars



\* The timestep property of a trajectory that is also read.
InitTimestep == \E m \in {"r", "w"}, p \in BOOLEAN :
                   \E f \in (IF m = "r" THEN PreFiles ELSE {<<>>}) : Fresh(m, f, p)

NextTimestep ==
    \/ \E hookOk \in BOOLEAN : GetTimestep(hookOk)
    \/ \E value \in Dts, hookOk \in BOOLEAN : SetTimestep(value, hookOk)
    \/ \E index \in 0..MaxFrames : Read(index, TRUE, TRUE)

SpecTimestep == InitTimestep /\ [][NextTimestep]_vars

\* ----------------------------------------------------------------- claims
StepsOf(log) == [i \in 1..Len(log) |-> log[i][1]]

\* The elements of s in the order of their first occurrence.
RECURSIVE FirstOccurrences(_)
FirstOccurrences(s) ==
    IF s = <<>> THEN <<>>
    ELSE LET front == SubSeq(s, 1, Len(s) - 1)
             x == s[Len(s)]
         IN IF \E j \in 1..Len(front) : front[j] = x
            THEN FirstOccurrences(front)
            ELSE Append(FirstOccurrences(front), x)

EvRead(i) == <<"read", i>>
EvReadInit == <<"read_init", 0>>
EvReadSample(i) == <<"read_sample", i>>
EvWriteInit == <<"write_init", 0>>
EvWriteSample(s) == <<"write_sample", s>>

C2_StepsAreFirstWrites ==
    mode = "w" =>
        /\ steps = FirstOccurrences(StepsOf(writeLog))
        /\ NoDuplicates(steps)
        /\ Len(steps) = Cardinality(Range(StepsOf(writeLog)))
        /\ (last.op = "write" /\ last.arg \in Range(last.preSteps)) =>
               steps = last.preSteps
        /\ (last.op = "write" /\ last.kind # "ok") => steps = last.preSteps

\* C2 witness: three writes returned, one of them of a step already written,
\* another write failed in write_sample, and the steps are in first-write order.
C2_Witness ==
    /\ mode = "w"
    /\ Len(writeLog) = 3
    /\ steps = <<10, 0>>
    /\ fails > 0
    /\ last.op = "write"
    /\ last.kind = "ok"
    /\ last.arg \in Range(last.preSteps)

\* C3: write on a trajectory in read mode raises an I/O error before anything
\* else: no write_init, no write_sample, steps and the flag as they were.
C3_WriteRefusedInReadMode ==
    mode = "r" =>
        /\ nWriteInit = 0
        /\ ~initialized_write
        /\ writeLog = <<>>
        /\ last.op = "write" =>
               /\ last.kind = "IOError"
               /\ last.events = <<>>
               /\ steps = last.preSteps
               /\ initialized_write = last.preW

\* C3 witness: a write was refused on a read-mode trajectory that has frames.
C3_Witness ==
    /\ mode = "r"
    /\ last.op = "write"
    /\ last.kind = "IOError"
    /\ Len(steps) = MaxFrames

\* The frames an exhausted iteration should have produced from a file.
FramesOf(f) == [i \in 1..Len(f) |-> [sys |-> f[i].sys, applied |-> <<>>]]

SystemsOf(log) == [i \in 1..Len(log) |-> [sys |-> log[i][2], applied |-> <<>>]]

C5_GetItem ==
    last.op = "getitem" =>
        LET n == Len(steps)
            k == last.key.v
        IN /\ (last.key.kind = "int" /\ 0 <= k /\ k < n) =>
                  /\ ReadsOf(last.events) = <<k>>
                  /\ last.kind \in {"ok", "Failure"}
                  /\ last.kind = "ok" => last.val = FramesOf(file)[k + 1]
           /\ (last.key.kind = "int" /\ 0 - n <= k /\ k < 0) =>
                  /\ ReadsOf(last.events) = <<k + n>>
                  /\ last.kind \in {"ok", "Failure"}
                  /\ last.kind = "ok" => last.val = FramesOf(file)[k + n + 1]
           /\ (last.key.kind = "int" /\ k >= n) =>
                  /\ last.kind = "IndexError"
                  /\ last.events = <<>>
           /\ last.key.kind \notin {"int", "slice"} =>
                  /\ last.kind = "TypeError"
                  /\ last.events = <<>>

\* C5 witness: traj[-1] on a trajectory of two frames returned the last frame.
C5_Witness ==
    /\ last.op = "getitem"
    /\ last.key = IntKey(-1)
    /\ Len(steps) = 2
    /\ last.kind = "ok"
    /\ ReadsOf(last.events) = <<1>>

\* C6: each callback appears at most once in callbacks, however often it is
\* registered, and is applied once per read.
C6_CallbackRegisteredOnce ==
    /\ \A i, j \in 1..Len(callbacks) : i # j => callbacks[i].cbk # callbacks[j].cbk
    /\ (last.op = "read" /\ last.kind = "ok") =>
           \A i, j \in 1..Len(last.val.applied) :
               i # j => last.val.applied[i][1] # last.val.applied[j][1]

\* cm(...c2(c1(s))...), from the outermost call inwards.
RECURSIVE Composed(_, _)
Composed(cbs, s) ==
    IF Len(cbs) = 0 THEN s
    ELSE LET c == cbs[Len(cbs)]
             inner == Composed(SubSeq(cbs, 1, Len(cbs) - 1), s)
         IN [sys |-> inner.sys, applied |-> inner.applied \o << <<c.cbk, c.args>> >>]

\* C7: read(i) is cm(...c2(c1(read_sample(i)))...) for the callbacks c1..cm in
\* registration order, each with its own bound arguments, and read_sample(i)
\* itself when there is no callback.
C7_CallbacksInRegistrationOrder ==
    (last.op = "read" /\ last.kind = "ok") =>
        /\ last.val = Composed(callbacks, FramesOf(file)[last.arg + 1])
        /\ last.val.sys = file[last.arg + 1].sys
        /\ Len(last.val.applied) = Len(callbacks)
        /\ callbacks = <<>> => last.val = FramesOf(file)[last.arg + 1]

\* C7 witness: a frame was read through two different callbacks.
C7_Witness ==
    /\ last.op = "read"
    /\ last.kind = "ok"
    /\ Len(callbacks) = 2
    /\ callbacks[1].cbk # callbacks[2].cbk

\* C8: an iteration over n = len(steps) frames calls read(0), read(1), ...,
\* read(n-1) in that order and yields their results; a second iteration over
\* the same object does so again.
C8_IterationReadsInOrder ==
    /\ it.reads = [k \in 1..Len(it.reads) |-> k - 1]
    /\ it.out = SubSeq(FramesOf(file), 1, Len(it.out))
    /\ it.status = "running" => (Len(it.reads) = Len(it.out) /\ Len(it.out) <= it.n)
    /\ it.status = "raised" => Len(it.reads) = Len(it.out) + 1
    /\ it.status = "exhausted" =>
          /\ it.n = Len(steps)
          /\ Len(it.reads) = it.n
          /\ Len(it.out) = it.n

\* C8 witness: the second iteration over a trajectory of two frames is exhausted.
C8_Witness ==
    /\ it.round = 2
    /\ it.status = "exhausted"
    /\ it.n = 2
    /\ Len(it.out) = 2

\* The step lists of the files of a set, one after the other in path order.
RECURSIVE Concatenated(_, _)
Concatenated(ps, d) ==
    IF ps = {} THEN <<>>
    ELSE LET p == CHOOSE x \in ps : \A y \in ps : x <= y
         IN d[p] \o Concatenated(ps \ {p}, d)

\* A sequence without the elements that repeat the element right before them.
RECURSIVE WithoutRepeats(_)
WithoutRepeats(s) ==
    IF Len(s) <= 1 THEN s
    ELSE LET front == WithoutRepeats(SubSeq(s, 1, Len(s) - 1))
         IN IF s[Len(s)] = s[Len(s) - 1] THEN front ELSE Append(front, s[Len(s)])

C10_OneOpenHandle ==
    /\ Cardinality(OpenHandles) <= 1
    /\ slast.op = "close" => (~last_trajectory.set /\ OpenHandles = {})

\* ---- decorated trajectories
\* The last call was a read of the Unfolded trajectory after its read_init.
UnfoldedRead == deco = "Unfolded" /\ dlast.op = "read" /\ dlast.pre.init

UnfoldedStateKept == u_old = dlast.pre.old /\ u_last_read = dlast.pre.last

\* C11 as stated: a request for any frame k >= 0 earlier than the last frame read
\* raises the ordering failure.
C11_EarlierFrameRefused ==
    (UnfoldedRead /\ dlast.sample >= 0 /\ dlast.sample < dlast.pre.last)
        => dlast.kind = "ValueError"

\* C11 amended: a request for a frame earlier than the last frame read raises the
\* ordering failure, reads nothing and keeps the unfolding state, unless it is a
\* request for frame 0, which returns the wrapped frame 0 and keeps the state.
C11_BackwardSeekRefused ==
    (UnfoldedRead /\ dlast.sample < dlast.pre.last) =>
        /\ UnfoldedStateKept
        /\ IF dlast.sample = 0
           THEN dlast.kind = "ok" /\ dlast.val = component[1] /\ dlast.wreads = <<0>>
           ELSE dlast.kind = "ValueError" /\ dlast.wreads = <<>>

C11_Witness ==
    /\ UnfoldedRead
    /\ dlast.sample >= 1
    /\ dlast.sample + 1 = dlast.pre.last
    /\ dlast.kind = "ValueError"

\* C12: reading the frames 0..N-1 in order twice in a row on the same Unfolded
\* trajectory completes without error, and every frame of the second pass has
\* the unfolded positions of the same frame of the first pass.
C12_SecondPassRepeats ==
    (deco = "Unfolded" /\ mon.second) =>
        /\ dlast.kind = "ok"
        /\ dlast.val = mon.first[dlast.sample + 1]

\* C13: on a Centered trajectory the first read_sample(k) reads the wrapped layer
\* once and, when that read returns, returns its frame with half the cell side
\* subtracted from every position; a later read_sample(k) returns None and reads
\* nothing; the done keys are the done keys before the call plus k.
C13_CenteredOnce ==
    (deco = "Centered" /\ dlast.op = "read") =>
        LET k == dlast.sample IN
        /\ Range(done) = Range(dlast.pre.done) \cup {k}
        /\ \A i \in 1..Len(dlast.pre.done) : done[i] = dlast.pre.done[i]
        /\ NoDuplicates(done)
        /\ IF k \in Range(dlast.pre.done)
           THEN dlast.kind = "none" /\ dlast.val = NoDFrame /\ dlast.wreads = <<>>
           ELSE /\ dlast.wreads = <<k>>
                /\ dlast.kind \in {"ok", "Failure", "IndexError"}
                /\ dlast.kind = "ok" =>
                      /\ k \in 0..(Len(component) - 1)
                      /\ dlast.val.side = component[k + 1].side
                      /\ \A c \in 1..Len(dlast.val.pos) :
                            2 * (component[k + 1].pos[c] - dlast.val.pos[c])
                                = component[k + 1].side

C13_Witness ==
    /\ deco = "Centered"
    /\ dlast.op = "read"
    /\ dlast.sample \in Range(dlast.pre.done)
    /\ dlast.kind = "none"
    /\ Len(done) >= 2
    /\ dfailed = FALSE

\* The indices of 0..n-1 that a slice with the bounds lo, hi and a positive
\* stride selects, and the bound an index b stands for in a list of n elements.
BoundOf(b, n, dflt) ==
    IF ~b.some THEN dflt
    ELSE IF b.v < 0 THEN (IF b.v + n < 0 THEN 0 ELSE b.v + n)
    ELSE IF b.v > n THEN n ELSE b.v

SelectedBy(sl, n) ==
    LET stride == IF sl.step.some THEN sl.step.v ELSE 1
        lo == BoundOf(sl.start, n, 0)
        hi == BoundOf(sl.stop, n, n)
    IN  IF stride > 0
        THEN {i \in 0..(n - 1) : lo <= i /\ i < hi /\ (i - lo) % stride = 0}
        ELSE 0..(n - 1)

\* C14: a Sliced trajectory's steps are the wrapped component's steps selected
\* by the slice, in the order of the slice; its length is the number of frames
\* selected; read_sample(i) reads the wrapped frame at the i-th selected index,
\* the frame whose step is steps[i]; the component's own steps are unchanged.
C14_SlicedSelects ==
    deco = "Sliced" =>
        LET n == Len(component)
            sl == dlast.uslice
            up == ~sl.step.some \/ sl.step.v > 0
        IN
        /\ csteps = [i \in 1..n |-> 10 * (i - 1)]
        /\ Range(sliced_samples) = SelectedBy(sl, n)
        /\ Len(sliced_samples) = Cardinality(SelectedBy(sl, n))
        /\ \A i \in 1..(Len(sliced_samples) - 1) :
              IF up THEN sliced_samples[i] < sliced_samples[i + 1]
              ELSE sliced_samples[i] > sliced_samples[i + 1]
        /\ Len(dsteps) = Len(sliced_samples)
        /\ \A i \in 1..Len(dsteps) : dsteps[i] = csteps[sliced_samples[i] + 1]
        /\ (dlast.op = "read" /\ dlast.sample \in 0..(Len(dsteps) - 1)) =>
              LET target == sliced_samples[dlast.sample + 1] IN
              /\ dlast.wreads = <<target>>
              /\ dlast.kind = "ok"
              /\ dlast.val = component[target + 1]
              /\ csteps[target + 1] = dsteps[dlast.sample + 1]

C14_Witness ==
    /\ deco = "Sliced"
    /\ dlast.op = "read"
    /\ dlast.kind = "ok"
    /\ dlast.sample = 1
    /\ dlast.wreads = <<2>>
    /\ dsteps = <<0, 20>>
    /\ csteps = <<0, 10, 20>>

\* The wrapped reads of the last call that raised: a read of a failing frame, or
\* of an index that is not a frame of the component.
WrappedRaised == {i \in Range(dlast.wreads) : i \in dlast.bads \/ i < 0 \/ i >= Len(component)}

\* C15: under every decorator a failure of the wrapped read_sample leaves the
\* decorated read as that failure, with no frame returned; Filter does not invoke
\* the user function then, and the only failure it catches is the one of the
\* first invocation of the user function, which it retries once with the
\* decorator instance prepended.
C15_FailuresSurface ==
    (deco \in Decos /\ dlast.op = "read") =>
        /\ WrappedRaised # {} =>
              /\ dlast.kind = (IF dlast.wreads[Len(dlast.wreads)] \in dlast.bads
                               THEN "Failure" ELSE "IndexError")
              /\ dlast.val = NoDFrame
              /\ dlast.filts = <<>>
              /\ WrappedRaised = {dlast.wreads[Len(dlast.wreads)]}
        /\ dlast.kind \in {"Failure", "IndexError"} =>
              (WrappedRaised # {} \/ (deco = "Sliced" /\ dlast.wreads = <<>>))
        /\ deco # "Filter" => dlast.filts = <<>> /\ dlast.kind # "FilterError"
        /\ (deco = "Filter" /\ WrappedRaised = {}) =>
              /\ dlast.f1 => dlast.kind = "ok" /\ dlast.filts = <<"sy">>
              /\ (~dlast.f1 /\ dlast.f2) =>
                    /\ dlast.kind = "ok"
                    /\ dlast.filts = <<"sy", "self,sy">>
                    /\ dlast.val.tags = <<"filt(self,sy)">>
              /\ (~dlast.f1 /\ ~dlast.f2) =>
                    /\ dlast.kind = "FilterError"
                    /\ dlast.filts = <<"sy", "self,sy">>
                    /\ dlast.val = NoDFrame

C15_Witness ==
    /\ deco = "Filter"
    /\ dlast.op = "read"
    /\ dlast.kind = "Failure"
    /\ dlast.wreads = <<dlast.sample>>
    /\ dlast.filts = <<>>

\* C16 as stated: on one trajectory read_timestep is invoked at most once.
C16_ReadTimestepAtMostOnce == nReadTimestep <= 1

\* C16 amended: read_timestep returns at most once and every other invocation
\* of it raised; a read with a cached timestep returns it without read_timestep,
\* a read without one invokes read_timestep once and caches what it returns
\* (1.0 with the default hook); an assignment invokes write_timestep and, when
\* that returns, caches the value, which every later read returns.
C16_TimestepCached ==
    /\ nReadTimestepDone <= 1
    /\ nReadTimestep <= nReadTimestepDone + fails
    /\ dtWritten # NoneDt => timestep_cache = dtWritten
    /\ (dtWritten = NoneDt /\ ~persistsDt /\ timestep_cache # NoneDt) => timestep_cache = "1.0"
    /\ ~persistsDt => nReadTimestep <= 1
    /\ last.op = "get_timestep" =>
          IF last.preDt # NoneDt
          THEN /\ last.events = <<>>
               /\ last.kind = "ok"
               /\ last.dt = last.preDt
               /\ timestep_cache = last.preDt
          ELSE /\ last.events = << <<"read_timestep", 0>> >>
               /\ last.kind = "ok" => last.dt # NoneDt /\ timestep_cache = last.dt
               /\ last.kind # "ok" => timestep_cache = NoneDt
    /\ last.op = "set_timestep" =>
          /\ last.events = << <<"write_timestep", 0>> >>
          /\ last.kind = "ok" => timestep_cache = last.dt /\ dtWritten = last.dt
          /\ last.kind # "ok" => timestep_cache = last.preDt

C16_Witness ==
    /\ last.op = "get_timestep"
    /\ last.preDt = "2.0"
    /\ last.dt = "2.0"
    /\ dtWritten = "2.0"
    /\ nReadTimestep = 0

\* C17: SuperTrajectory.read_sample(frame) reuses the cached sub-trajectory
\* exactly when one is cached, it is on the file of the frame and it is open;
\* otherwise it closes the cached one, if any, and opens the file of the frame.
\* The call succeeds and leaves an open cached sub-trajectory on that file.
C17_CacheReuse ==
    slast.op = "read_sample" =>
        /\ slast.kind = "ok" <=> ~PyIndexError(slast.frame, Len(steps_file))
        /\ slast.kind = "ok" =>
              LET f == steps_file[PyIndex(slast.frame, Len(steps_file)) + 1] IN
              /\ slast.reused <=>
                    (slast.pre.set /\ slast.pre.filename = f /\ ~slast.pre.closed)
              /\ slast.reused => last_trajectory = slast.pre /\ slast.closes = <<>>
              /\ ~slast.reused =>
                    slast.closes = (IF slast.pre.set THEN <<slast.pre.filename>> ELSE <<>>)
              /\ last_trajectory.set
              /\ ~last_trajectory.closed
              /\ last_trajectory.filename = f

C17_Witness ==
    /\ slast.op = "read_sample"
    /\ slast.kind = "ok"
    /\ slast.pre.set
    /\ slast.pre.closed
    /\ slast.pre.filename = slast.file
    /\ ~slast.reused
    /\ last_trajectory = Handle(slast.file)

\* The place of the i-th entry of the index: the position of its file in
\* self.files and its local frame; places are ordered as the constructor
\* visits them.
EntryPlace(i) ==
    <<CHOOSE a \in 1..Len(files) : files[a] = steps_file[i], steps_frame[i]>>

Places == UNION {{<<a, j>> : j \in 0..(Len(dir[files[a]]) - 1)} : a \in 1..Len(files)}

Before(p, q) == p[1] < q[1] \/ (p[1] = q[1] /\ p[2] < q[2])

IndexAligned ==
    /\ Len(steps_file) = Len(steps)
    /\ Len(steps_frame) = Len(steps)
    /\ \A i \in 1..Len(steps) :
          /\ steps_file[i] \in Range(files)
          /\ steps_frame[i] \in 0..(Len(dir[steps_file[i]]) - 1)
          /\ dir[steps_file[i]][steps_frame[i] + 1] = steps[i]

\* C18 as stated: the index is aligned, and the file of every entry is the
\* first file, in sorted order, that holds the step of the entry.
C18_FirstFileThatRecorded ==
    pc = "ready" =>
        /\ IndexAligned
        /\ \A i \in 1..Len(steps) : \A g \in Range(files) :
              steps[i] \in Range(dir[g]) => steps_file[i] <= g

\* C18 amended: the index is aligned; its entries are, in the order the files
\* and their frames are visited, the frames whose step differs from the step of
\* the entry before, so every frame holds the step of the last entry at or
\* before it; read_sample(i) reads local frame _steps_frame[i] of _steps_file[i],
\* whose step is steps[i], and keeps the three sequences.
C18_IndexConsistent ==
    pc = "ready" =>
        /\ IndexAligned
        /\ \A i \in 1..(Len(steps) - 1) :
              Before(EntryPlace(i), EntryPlace(i + 1)) /\ steps[i] # steps[i + 1]
        /\ \A p \in Places :
              LET prior == {i \in 1..Len(steps) :
                               EntryPlace(i) = p \/ Before(EntryPlace(i), p)}
              IN  /\ prior # {}
                  /\ \E m \in prior :
                        /\ \A i \in prior : i <= m
                        /\ dir[files[p[1]]][p[2] + 1] = steps[m]
        /\ (slast.op = "read_sample" /\ slast.kind = "ok") =>
              LET k == PyIndex(slast.frame, Len(steps)) + 1 IN
              /\ slast.file = steps_file[k]
              /\ slast.local = steps_frame[k]
              /\ slast.step = steps[k]

C18_Witness ==
    /\ pc = "ready"
    /\ files = <<1, 2, 3>>
    /\ dir[1] = <<0, 10>>
    /\ dir[2] = <<10, 10>>
    /\ dir[3] = <<0>>
    /\ slast.op = "read_sample"
    /\ slast.frame = 2
    /\ slast.file = 3
    /\ slast.step = 0

\* The frames a .. b in increasing order.
FromTo(a, b) == [i \in 1..(b - a + 1) |-> a + i - 1]

\* Requesting the frames st.last + 1, ..., k one at a time, each request being
\* the request of the frame after the last one read.
RECURSIVE OneAtATime(_, _)
OneAtATime(st, k) ==
    IF st.last + 1 >= k THEN UnfoldedSample(st, k, {})
    ELSE OneAtATime(UnfoldedSample(st, st.last + 1, {}).st, k)

\* C19: a request for frame k > j + 1 when the last frame read is j reads the
\* frames j+1, ..., k from the wrapped layer, each once and in increasing order,
\* and the frame returned and the state left are those of requesting j+1, ..., k
\* one at a time.
C19_ForwardJump ==
    (UnfoldedRead /\ dlast.sample > dlast.pre.last + 1
        /\ dlast.sample < Len(component)) =>
        LET j == dlast.pre.last
            k == dlast.sample
            one == OneAtATime(dlast.pre, k)
        IN  /\ dlast.kind = "ok"
            /\ dlast.wreads = FromTo(j + 1, k)
            /\ dlast.val = one.val
            /\ u_last_read = k
            /\ u_last_read = one.st.last
            /\ u_old = one.st.old
            /\ dlast.val.pos = u_old

C19_Witness ==
    /\ UnfoldedRead
    /\ dlast.pre.last = 0
    /\ dlast.sample = 2
    /\ dlast.kind = "ok"
    /\ dlast.wreads = <<1, 2>>
    /\ dlast.val.pos # component[3].pos

Abs(x) == IF x < 0 THEN 0 - x ELSE x

\* The last call read frame k >= 1 of the Unfolded trajectory right after
\* frame k - 1, whose unfolded positions are UnfoldedBefore.
UnfoldedInOrder ==
    /\ deco = "Unfolded"
    /\ dlast.op = "read"
    /\ dlast.kind = "ok"
    /\ dlast.sample = (IF dlast.pre.init THEN dlast.pre.last ELSE 0) + 1

UnfoldedBefore == IF dlast.pre.init THEN dlast.pre.old ELSE component[1].pos

\* C20: reading the frames in order, every component of the position returned
\* for frame k differs from the raw position of frame k by a whole number of
\* cell sides L of frame k, and from the unfolded position of frame k - 1 by
\* at most L / 2; a component that jumped by more than L / 2 between two raw
\* frames of the same cell (one crossing of the boundary) is returned one cell
\* side away from its raw position, a component that moved by less than L / 2
\* is returned as it is.
C20_MinimumImage ==
    UnfoldedInOrder =>
        LET k == dlast.sample
            raw == component[k + 1]
            before == component[k]
            L == raw.side
        IN  /\ dlast.val.side = L
            /\ dlast.val.pos = u_old
            /\ \A c \in 1..Len(raw.pos) :
                  /\ (dlast.val.pos[c] - raw.pos[c]) % L = 0
                  /\ 2 * Abs(dlast.val.pos[c] - UnfoldedBefore[c]) <= L
                  /\ (UnfoldedBefore = before.pos /\ before.side = L) =>
                        /\ 2 * Abs(raw.pos[c] - before.pos[c]) > L =>
                              Abs(dlast.val.pos[c] - raw.pos[c]) = L
                        /\ 2 * Abs(raw.pos[c] - before.pos[c]) < L =>
                              dlast.val.pos[c] = raw.pos[c]

C20_Witness ==
    /\ UnfoldedInOrder
    /\ dlast.sample = 1
    /\ component[1] = [pos |-> <<1, 1>>, side |-> 4, tags |-> <<>>]
    /\ component[2] = [pos |-> <<-2, 1>>, side |-> 4, tags |-> <<>>]
    /\ dlast.val.pos = <<2, 1>>

\* ------------------------------------------------------------------ C21
\* a read of a frame of the stacked trajectory
StackedRead ==
    /\ deco \in Stacks
    /\ dlast.op = "read"
    /\ dlast.sample \in 0..(Len(dsteps) - 1)

\* every call made by the loop over the skipped frames asks Unfolded for the
\* frame right after the last read one, the call that moves _last_read on
CatchUpAdvances ==
    \A k \in 1..Len(calls) : calls[k].inner => calls[k].sample = calls[k].last + 1

\* C21 (as stated): through a stack of Sliced and Unfolded, in either order and
\* for any slice, every read(i) with 0 <= i < len(steps) ends after finitely
\* many reads of the wrapped layer, with a frame or with an error of the
\* layers, never by running the nest of read_sample calls into the recursion
\* limit; and every inner call of the catch-up of Unfolded.read_sample
\* advances the last-read index.
C21_StackedReadsTerminate ==
    StackedRead => (dlast.kind # "RuntimeError" /\ CatchUpAdvances)

\* ------------------------------------------------------------------ C22
\* C22 (as stated): for every integer key, traj[key] either raises an index
\* error without calling read, or calls read once with an index in
\* [0, len(steps)); every key below -len(steps) raises the index error.
C22_GetItemInRange ==
    (last.op = "getitem" /\ last.key.kind = "int") =>
        LET n == Len(steps)
            k == last.key.v
            refused == last.kind = "IndexError" /\ last.events = <<>>
        IN /\ \/ refused
              \/ \E i \in 0..(n - 1) : ReadsOf(last.events) = <<i>>
           /\ k < 0 - n => refused

\* ------------------------------------------------------------------ C23
\* the wrapped layer raised while Centered or Unfolded was serving the last read
FailedRead ==
    /\ deco \in {"Centered", "Unfolded"}
    /\ dlast.op = "read"
    /\ dlast.kind = "Failure"

\* the decorator's private state has not recorded the key of the last read
NotRecorded ==
    LET k == dlast.sample
    IN  /\ deco = "Centered" => (k \in Range(done) => k \in Range(dlast.pre.done))
        /\ deco = "Unfolded" => (u_last_read = k => dlast.pre.last = k)

\* a retry of the last read for which the wrapped layer succeeds gives what the
\* same request would have given before the failure
RetryAsFirst ==
    LET k == dlast.sample
        retry == DecoReadCore(deco, DState, k, {}, TRUE, TRUE, "lo")
        first == DecoReadCore(deco, dlast.pre, k, {}, TRUE, TRUE, "lo")
    IN  retry.kind = first.kind /\ retry.val = first.val

\* C23 (as stated): when the wrapped layer's read_sample raises while Centered
\* or Unfolded serves read_sample(k), the decorator does not record k as served
\* (Centered's done list does not gain k, Unfolded's last-read index is not set
\* to k), and a later read of k for which the wrapped layer succeeds returns
\* the transformed frame exactly as a first request would.
C23_FailedReadRetriable == FailedRead => (NotRecorded /\ RetryAsFirst)

====
